---- MODULE Spec2Model ----
(***************************************************************************)
(* Air cargo planning problem (my_air_cargo_problems.py): grounding of the *)
(* Load / Unload / Fly schemas, the T/F state codec, the applicability     *)
(* test, the successor function, the goal test and the goal-count          *)
(* heuristic, over the three built-in problems and small constructed ones. *)
(***************************************************************************)
EXTENDS Integers, Sequences, FiniteSets, TLC

VARIABLES
    name,              \* which constructor call built the problem
    cargos,            \* self.cargos
    planes,            \* self.planes
    airports,          \* self.airports
    state_map,         \* self.state_map
    initial_state_TF,  \* self.initial_state_TF
    goal,              \* self.goal
    actions_list,      \* self.actions_list
    pc,                \* "constructing" | "ready" | "measure"
    state,             \* the encoded state of the search driver's current node
    followed,          \* how many steps of Scenario the run so far consists of, -1 if it left it
    h0,                \* h_ignore_preconditions at the node the measurement started from
    steps,             \* actions applied since that node
    cache,             \* the lru_cache of h_pg_levelsum, least recently used entry first
    th,                \* per calling thread: where it is inside the cached h_pg_levelsum
    done,              \* the last two completed calls of h_pg_levelsum, older first
    calls,             \* calls of h_pg_levelsum started so far
    oracle_calls,      \* times PlanningGraph(...).h_levelsum() was run
    call,              \* the last method call made on the problem: arguments and outcome
    frontier,          \* search driver: nodes of the current depth
    explored           \* search driver: nodes of the smaller depths

vars == <<name, cargos, planes, airports, state_map, initial_state_TF, goal,
          actions_list, pc, state, followed, h0, steps,
          cache, th, done, calls, oracle_calls, call, frontier, explored>>

cache_vars == <<cache, th, done, calls, oracle_calls>>

search_vars == <<frontier, explored>>

problem_fields == <<name, cargos, planes, airports, state_map, initial_state_TF, goal>>

----------------------------------------------------------------------------
(* Bounds of the constructed inputs *)

MaxGoalLen == 2

MaxObjects == 3

(* calls of h_pg_levelsum in one run *)
MaxCalls == 4

(* maxsize=8192 in the source; the cache is run with room for Capacity entries
   so that a few calls fill it *)
Capacity == 2

(* threads calling h_pg_levelsum at once *)
NumThreads == 2

----------------------------------------------------------------------------
(* Lists *)

InSeq(x, s) == \E i \in 1..Len(s) : s[i] = x

ToSet(s) == {s[i] : i \in 1..Len(s)}

RECURSIVE Concat(_)
Concat(ss) == IF Len(ss) = 0 THEN <<>> ELSE Head(ss) \o Concat(Tail(ss))

Prefix(s, n) == SubSeq(s, 1, n)

(* expr("At(x, y)") and expr("In(x, y)"): equality is structural *)
At(x, y) == <<"At", x, y>>

In(x, y) == <<"In", x, y>>

FluentState(p, n) == [pos |-> p, neg |-> n]

Action(nm, precond, effect) ==
    [name |-> nm,
     precond_pos |-> precond[1], precond_neg |-> precond[2],
     effect_add |-> effect[1], effect_rem |-> effect[2]]

----------------------------------------------------------------------------
(* State codec (lp_utils) *)

encode_state(fs, fluent_map) ==
    [i \in 1..Len(fluent_map) |-> IF InSeq(fluent_map[i], fs.pos) THEN "T" ELSE "F"]

decode_state(s, fluent_map) ==
    LET idx == [i \in 1..Len(s) |-> i]
        t == SelectSeq(idx, LAMBDA i : s[i] = "T")
        f == SelectSeq(idx, LAMBDA i : s[i] # "T")
    IN  FluentState([j \in 1..Len(t) |-> fluent_map[t[j]]],
                    [j \in 1..Len(f) |-> fluent_map[f[j]]])

(* PropKB().tell(fs.pos_sentence()); kb.clauses: the conjuncts of the sentence *)
kb_clauses(fs) == ToSet(fs.pos)

----------------------------------------------------------------------------
(* Action grounder *)

load_action(cargo, plane, airport) ==
    Action(<<"Load", cargo, plane, airport>>,
           << <<At(cargo, airport), At(plane, airport)>>, <<>> >>,
           << <<In(cargo, plane)>>, <<At(cargo, airport)>> >>)

load_actions(cs, ps, as) ==
    Concat([c \in 1..Len(cs) |->
        Concat([p \in 1..Len(ps) |->
            [a \in 1..Len(as) |-> load_action(cs[c], ps[p], as[a])]])])

unload_action(cargo, plane, airport) ==
    Action(<<"Unload", cargo, plane, airport>>,
           << <<In(cargo, plane), At(plane, airport)>>, <<>> >>,
           << <<At(cargo, airport)>>, <<In(cargo, plane)>> >>)

unload_actions(cs, ps, as) ==
    Concat([c \in 1..Len(cs) |->
        Concat([p \in 1..Len(ps) |->
            [a \in 1..Len(as) |-> unload_action(cs[c], ps[p], as[a])]])])

fly_action(p, fr, to) ==
    Action(<<"Fly", p, fr, to>>,
           << <<At(p, fr)>>, <<>> >>,
           << <<At(p, to)>>, <<At(p, fr)>> >>)

(* fly_actions without the test fr != to *)
fly_actions_any(ps, as) ==
    Concat([fr \in 1..Len(as) |->
        Concat([to \in 1..Len(as) |->
            [p \in 1..Len(ps) |-> fly_action(ps[p], as[fr], as[to])]])])

fly_actions(ps, as) ==
    Concat([fr \in 1..Len(as) |->
        Concat([to \in 1..Len(as) |->
            IF as[fr] # as[to]
            THEN [p \in 1..Len(ps) |-> fly_action(ps[p], as[fr], as[to])]
            ELSE <<>>])])

(* get_actions returning load_actions() + unload_actions() *)
get_actions_no_fly(cs, ps, as) ==
    load_actions(cs, ps, as) \o unload_actions(cs, ps, as)

get_actions(cs, ps, as) ==
    load_actions(cs, ps, as) \o unload_actions(cs, ps, as) \o fly_actions(ps, as)

----------------------------------------------------------------------------
(* Built-in problems and constructed inputs *)

air_cargo_p1 ==
    [name |-> "p1",
     cargos |-> <<"C1", "C2">>,
     planes |-> <<"P1", "P2">>,
     airports |-> <<"JFK", "SFO">>,
     initial |-> FluentState(
        <<At("C1", "SFO"), At("C2", "JFK"), At("P1", "SFO"), At("P2", "JFK")>>,
        <<At("C2", "SFO"), In("C2", "P1"), In("C2", "P2"),
          At("C1", "JFK"), In("C1", "P1"), In("C1", "P2"),
          At("P1", "JFK"), At("P2", "SFO")>>),
     goal |-> <<At("C1", "JFK"), At("C2", "SFO")>>]

air_cargo_p2 ==
    [name |-> "p2",
     cargos |-> <<"C1", "C2", "C3">>,
     planes |-> <<"P1", "P2", "P3">>,
     airports |-> <<"JFK", "SFO", "ATL">>,
     initial |-> FluentState(
        <<At("C1", "SFO"), At("C2", "JFK"), At("C3", "ATL"),
          At("P1", "SFO"), At("P2", "JFK"), At("P3", "ATL")>>,
        <<At("C1", "JFK"), At("C1", "ATL"),
          In("C1", "P1"), In("C1", "P2"), In("C1", "P3"),
          At("C2", "SFO"), At("C2", "ATL"),
          In("C2", "P1"), In("C2", "P2"), In("C2", "P3"),
          At("C3", "SFO"), At("C3", "JFK"),
          In("C3", "P1"), In("C3", "P2"), In("C3", "P3"),
          At("P1", "JFK"), At("P1", "ATL"),
          At("P2", "SFO"), At("P2", "ATL"),
          At("P3", "SFO"), At("P3", "JFK")>>),
     goal |-> <<At("C1", "JFK"), At("C2", "SFO"), At("C2", "SFO")>>]

air_cargo_p3 ==
    [name |-> "p3",
     cargos |-> <<"C1", "C2", "C3", "C4">>,
     planes |-> <<"P1", "P2", "P3", "P4">>,
     airports |-> <<"JFK", "SFO", "ATL", "ORD">>,
     initial |-> FluentState(
        <<At("C1", "SFO"), At("C2", "JFK"), At("C3", "ATL"), At("C4", "ORD"),
          At("P1", "SFO"), At("P2", "JFK")>>,
        <<At("C1", "JFK"), At("C1", "ATL"), At("C1", "ORD"),
          In("C1", "P1"), In("C1", "P2"),
          At("C2", "SFO"), At("C2", "ATL"), At("C2", "ORD"),
          In("C2", "P1"), In("C2", "P2"),
          At("C3", "SFO"), At("C3", "JFK"), At("C3", "ORD"),
          In("C3", "P1"), In("C3", "P2"),
          At("C4", "SFO"), At("C4", "JFK"), At("C4", "ATL"),
          At("C4", "P1"), At("C4", "P2"),
          At("P1", "JFK"), At("P1", "ATL"), At("P1", "ORD"),
          At("P2", "SFO"), At("P2", "ATL"), At("P2", "ORD")>>),
     goal |-> <<At("C1", "JFK"), At("C3", "JFK"), At("C2", "SFO"), At("C4", "SFO")>>]

BuiltIn == {air_cargo_p1, air_cargo_p2, air_cargo_p3}

BuiltInNames == {"p1", "p2", "p3"}

(* Goal lists a caller may pass with air_cargo_p1's domain and initial state *)
GoalPool == {At("C1", "SFO"), At("C1", "JFK"), At("C2", "SFO"), At("C2", "JFK")}

GoalLists == UNION {[1..n -> GoalPool] : n \in 0..MaxGoalLen}

CustomGoal == {[air_cargo_p1 EXCEPT !.name = "custom", !.goal = g] : g \in GoalLists}

CargoPool == <<"C1", "C2", "C3", "C4", "C5">>

PlanePool == <<"P1", "P2", "P3", "P4", "P5">>

AirportPool == <<"JFK", "SFO", "ATL", "ORD", "LAX">>

(* Domains of every size up to MaxObjects, with nothing asserted initially *)
Domains ==
    {[name |-> "domain",
      cargos |-> Prefix(CargoPool, nc),
      planes |-> Prefix(PlanePool, np),
      airports |-> Prefix(AirportPool, na),
      initial |-> FluentState(<<>>, <<>>),
      goal |-> <<>>] : nc \in 0..MaxObjects, np \in 0..MaxObjects, na \in 0..MaxObjects}

----------------------------------------------------------------------------
(* AirCargoProblem *)

init_state_map(initial) == initial.pos \o initial.neg

(* the initial state encoded against the positive fluents alone *)
init_initial_state_TF_pos_only(initial) == encode_state(initial, initial.pos)

init_initial_state_TF(initial) == encode_state(initial, init_state_map(initial))

(* __init__ up to, and not including, self.actions_list = self.get_actions() *)
Fields(inp) ==
    /\ name = inp.name
    /\ state_map = init_state_map(inp.initial)
    /\ initial_state_TF = init_initial_state_TF(inp.initial)
    /\ goal = inp.goal
    /\ cargos = inp.cargos
    /\ planes = inp.planes
    /\ airports = inp.airports

(* the applicability test leaving its second loop after the first clause *)
is_possible_first_clause(action, clauses) ==
    /\ \A i \in 1..Len(action.precond_neg) : action.precond_neg[i] \notin clauses
    /\ Len(action.precond_pos) > 0 => action.precond_pos[1] \in clauses

is_possible(action, clauses) ==
    /\ \A i \in 1..Len(action.precond_neg) : action.precond_neg[i] \notin clauses
    /\ \A i \in 1..Len(action.precond_pos) : action.precond_pos[i] \in clauses

actions(s) ==
    LET clauses == kb_clauses(decode_state(s, state_map))
    IN  SelectSeq(actions_list, LAMBDA action : is_possible(action, clauses))

RECURSIVE AppendNew(_, _)
(* for fluent in fs: if fluent not in acc: acc.append(fluent) *)
AppendNew(acc, fs) ==
    IF Len(fs) = 0 THEN acc
    ELSE AppendNew(IF InSeq(Head(fs), acc) THEN acc ELSE Append(acc, Head(fs)), Tail(fs))

(* result() without the loop over action.effect_add *)
result_new_state_no_add(s, action) ==
    LET old_state == decode_state(s, state_map)
        kept_pos == SelectSeq(old_state.pos, LAMBDA fluent : ~InSeq(fluent, action.effect_rem))
        kept_neg == SelectSeq(old_state.neg, LAMBDA fluent : ~InSeq(fluent, action.effect_add))
    IN  FluentState(kept_pos, AppendNew(kept_neg, action.effect_rem))

(* result() that starts the positive list from the add effects alone *)
result_new_state_no_frame(s, action) ==
    LET old_state == decode_state(s, state_map)
        kept_neg == SelectSeq(old_state.neg, LAMBDA fluent : ~InSeq(fluent, action.effect_add))
    IN  FluentState(AppendNew(<<>>, action.effect_add),
                    AppendNew(kept_neg, action.effect_rem))

(* result() without the loop over action.effect_rem *)
result_new_state_no_rem(s, action) ==
    LET old_state == decode_state(s, state_map)
        kept_pos == SelectSeq(old_state.pos, LAMBDA fluent : ~InSeq(fluent, action.effect_rem))
        kept_neg == SelectSeq(old_state.neg, LAMBDA fluent : ~InSeq(fluent, action.effect_add))
    IN  FluentState(AppendNew(kept_pos, action.effect_add), kept_neg)

(* the FluentState result() builds before encoding it *)
result_new_state(s, action) ==
    LET old_state == decode_state(s, state_map)
        kept_pos == SelectSeq(old_state.pos, LAMBDA fluent : ~InSeq(fluent, action.effect_rem))
        kept_neg == SelectSeq(old_state.neg, LAMBDA fluent : ~InSeq(fluent, action.effect_add))
    IN  FluentState(AppendNew(kept_pos, action.effect_add),
                    AppendNew(kept_neg, action.effect_rem))

result(s, action) == encode_state(result_new_state(s, action), state_map)

RECURSIVE all_in(_, _)
(* for clause in clauses_wanted: if clause not in kb.clauses: return False *)
all_in(wanted, clauses) ==
    IF Len(wanted) = 0 THEN TRUE
    ELSE IF Head(wanted) \notin clauses THEN FALSE
    ELSE all_in(Tail(wanted), clauses)

(* goal_test returning True from inside its loop *)
goal_test_first_clause(s) ==
    Len(goal) > 0 => goal[1] \in kb_clauses(decode_state(s, state_map))

goal_test(s) == all_in(goal, kb_clauses(decode_state(s, state_map)))

h_1(s) == 1

RECURSIVE count_missing(_, _, _)
count_missing(wanted, clauses, actions_count) ==
    IF Len(wanted) = 0 THEN actions_count
    ELSE count_missing(Tail(wanted), clauses,
                       IF Head(wanted) \notin clauses THEN actions_count + 1 ELSE actions_count)

(* the heuristic counting the goal clauses that are in the knowledge base *)
h_ignore_preconditions_present(s) ==
    Len(goal) - count_missing(goal, kb_clauses(decode_state(s, state_map)), 0)

h_ignore_preconditions(s) ==
    count_missing(goal, kb_clauses(decode_state(s, state_map)), 0)

----------------------------------------------------------------------------
(* The scenario of the 2-cargo problem *)

Scenario ==
    << <<"Load", "C1", "P1", "SFO">>, <<"Fly", "P1", "SFO", "JFK">>,
       <<"Unload", "C1", "P1", "JFK">>, <<"Load", "C2", "P2", "JFK">>,
       <<"Fly", "P2", "JFK", "SFO">>, <<"Unload", "C2", "P2", "SFO">> >>

Follow(k, nm) ==
    IF k >= 0 /\ k < Len(Scenario) /\ Scenario[k + 1] = nm THEN k + 1 ELSE -1

----------------------------------------------------------------------------
(* Specifications *)

NoCall == [method |-> "none", state |-> <<>>, action |-> <<>>, outcome |-> "none", ret |-> <<>>]

(* nothing cached, nobody inside h_pg_levelsum, no call made, no search begun *)
Untouched ==
    /\ cache = <<>>
    /\ th = <<>>
    /\ done = <<>>
    /\ calls = 0
    /\ oracle_calls = 0
    /\ call = NoCall
    /\ frontier = {}
    /\ explored = {}

Built(inp) ==
    /\ Fields(inp)
    /\ actions_list = get_actions(inp.cargos, inp.planes, inp.airports)
    /\ pc = "ready"
    /\ state = init_initial_state_TF(inp.initial)
    /\ followed = 0
    /\ h0 = 0
    /\ steps = 0

Constructed(inp) == Built(inp) /\ Untouched

Init == \E inp \in BuiltIn \cup CustomGoal : Constructed(inp)

(* The search driver expands the node: one of actions(state), then result *)
Expand ==
    LET possible_actions == actions(state)
    IN  \E i \in 1..Len(possible_actions) :
          /\ state' = result(state, possible_actions[i])
          /\ followed' = Follow(followed, possible_actions[i].name)

Result ==
    /\ pc = "ready"
    /\ Expand
    /\ UNCHANGED <<problem_fields, actions_list, pc, h0, steps, cache_vars, call, search_vars>>

Next == Result

Spec == Init /\ [][Next]_vars

(* The constructor's last statement, on domains of every size *)
InitGrounding ==
    \E inp \in Domains :
        /\ Fields(inp)
        /\ actions_list = <<>>
        /\ pc = "constructing"
        /\ state = init_initial_state_TF(inp.initial)
        /\ followed = 0
        /\ h0 = 0
        /\ steps = 0
        /\ Untouched

GetActions ==
    /\ pc = "constructing"
    /\ actions_list' = get_actions(cargos, planes, airports)
    /\ pc' = "ready"
    /\ UNCHANGED <<problem_fields, state, followed, h0, steps, cache_vars, call, search_vars>>

NextGrounding == GetActions

SpecGrounding == InitGrounding /\ [][NextGrounding]_vars

(* Measuring the heuristic against the plans that start at a reachable node:
   the driver records h_ignore_preconditions of a node that is not a goal and
   counts the actions it applies from there.  A plan shorter than the recorded
   value has fewer than Len(goal) actions, so the count stops there. *)
InitMeasure == \E inp \in BuiltIn : Constructed(inp)

Mark ==
    /\ pc = "ready"
    /\ h_ignore_preconditions(state) > 0
    /\ pc' = "measure"
    /\ h0' = h_ignore_preconditions(state)
    /\ steps' = 0
    /\ UNCHANGED <<problem_fields, actions_list, state, followed, cache_vars, call, search_vars>>

Step ==
    /\ pc = "measure"
    /\ steps + 1 < h0
    /\ Expand
    /\ steps' = steps + 1
    /\ UNCHANGED <<problem_fields, actions_list, pc, h0, cache_vars, call, search_vars>>

NextMeasure == Result \/ Mark \/ Step

SpecMeasure == InitMeasure /\ [][NextMeasure]_vars

----------------------------------------------------------------------------
(* Shorthands of the properties *)

Positive(s) == ToSet(decode_state(s, state_map).pos)

Negative(s) == ToSet(decode_state(s, state_map).neg)

Fluents == ToSet(state_map)

(* the grounded actions whose preconditions the positive set pos satisfies *)
ApplicableIn(pos) ==
    {a \in ToSet(actions_list) :
        /\ ToSet(a.precond_pos) \subseteq pos
        /\ ToSet(a.precond_neg) \cap pos = {}}

Touched(a) == ToSet(a.effect_add) \cup ToSet(a.effect_rem)

----------------------------------------------------------------------------
(* The state after the first k actions of Scenario, each looked up by name in
   the grounded list and handed to result, starting from the initial state *)
ActionNamed(nm) == actions_list[CHOOSE i \in 1..Len(actions_list) : actions_list[i].name = nm]

RECURSIVE AfterScenario(_)
AfterScenario(k) ==
    IF k = 0 THEN initial_state_TF
    ELSE result(AfterScenario(k - 1), ActionNamed(Scenario[k]))

(* C1: in air_cargo_p1 the state reached by the six actions of Scenario, applied
   in order from the initial state, passes goal_test, and the state reached by
   each shorter prefix of Scenario (the empty one included) does not. *)
C1_ScenarioReachesGoal ==
    (name = "p1" /\ pc = "ready") =>
        /\ \A k \in 0..Len(Scenario) :
              goal_test(AfterScenario(k)) <=> k = Len(Scenario)
        /\ followed >= 0 => state = AfterScenario(followed)

C1_Witness ==
    /\ name = "p1"
    /\ followed = Len(Scenario)
    /\ state = AfterScenario(Len(Scenario))
    /\ goal_test(state)
    /\ ~goal_test(initial_state_TF)

(* C2: frame correctness: a fluent of the state map that is in neither the add
   nor the delete effects of an applicable action has the same truth value in
   result(s, a) as in s. *)
C2_Frame ==
    pc = "ready" =>
        \A a \in ApplicableIn(Positive(state)) :
            LET r == result(state, a)
            IN  /\ Len(r) = Len(state)
                /\ \A j \in 1..Len(state_map) :
                      state_map[j] \notin Touched(a) => r[j] = state[j]

C2_Witness ==
    /\ name = "p2"
    /\ followed = 2
    /\ \E a \in ApplicableIn(Positive(state)) :
          /\ a.name = Scenario[3]
          /\ At("C2", "JFK") \in Positive(state) \cap Positive(result(state, a))
          /\ At("C2", "SFO") \in Negative(state) \cap Negative(result(state, a))

(* C3: successor update rule: for an applicable action the FluentState that
   result builds has positive set (old positive minus delete effects) plus add
   effects and negative set (old negative minus add effects) plus delete
   effects, and decoding the returned encoded state gives these two sets. *)
C3_UpdateRule ==
    pc = "ready" =>
        \A a \in ApplicableIn(Positive(state)) :
            LET new_state == result_new_state(state, a)
                decoded == decode_state(result(state, a), state_map)
                add == ToSet(a.effect_add)
                del == ToSet(a.effect_rem)
            IN  /\ ToSet(new_state.pos) = (Positive(state) \ del) \cup add
                /\ ToSet(new_state.neg) = (Negative(state) \ add) \cup del
                /\ ToSet(decoded.pos) = ToSet(new_state.pos)
                /\ ToSet(decoded.neg) = ToSet(new_state.neg)

(* C4: totality: in the FluentState that result builds from a reachable state
   and an applicable action, every fluent of the state map is in exactly one of
   the positive and the negative list. *)
C4_Totality ==
    pc = "ready" =>
        \A a \in ApplicableIn(Positive(state)) :
            LET new_state == result_new_state(state, a)
                new_pos == ToSet(new_state.pos)
                new_neg == ToSet(new_state.neg)
            IN  /\ Fluents \subseteq new_pos \cup new_neg
                /\ Fluents \cap new_pos \cap new_neg = {}

C4_Witness ==
    /\ name = "p3"
    /\ state # initial_state_TF
    /\ \E a \in ApplicableIn(Positive(state)) :
          /\ a.name = <<"Load", "C4", "P1", "ORD">>
          /\ InSeq(At("C4", "ORD"), result_new_state(state, a).neg)
          /\ ~InSeq(At("C4", "ORD"), result_new_state(state, a).pos)

(* Position of an action in the order the grounder's loops generate: Load, then
   Unload (cargo, plane, airport nesting), then Fly (from, to, plane nesting) *)
IndexOf(x, list) == CHOOSE i \in 1..Len(list) : list[i] = x

Rank(nm) ==
    LET n == Len(cargos) + Len(planes) + Len(airports) + 1
        nest(i1, i2, i3) == (i1 * n + i2) * n + i3
    IN  CASE nm[1] = "Load" ->
               nest(IndexOf(nm[2], cargos), IndexOf(nm[3], planes), IndexOf(nm[4], airports))
          [] nm[1] = "Unload" ->
               n * n * n
               + nest(IndexOf(nm[2], cargos), IndexOf(nm[3], planes), IndexOf(nm[4], airports))
          [] nm[1] = "Fly" ->
               2 * n * n * n
               + nest(IndexOf(nm[3], airports), IndexOf(nm[4], airports), IndexOf(nm[2], planes))

(* C5: actions(state) holds exactly the grounded actions whose positive
   preconditions are all in the positive set of state and whose negative
   preconditions are not, each once, in the grounder's generation order. *)
C5_ActionsExact ==
    pc = "ready" =>
        LET possible_actions == actions(state)
        IN  /\ ToSet(possible_actions) = ApplicableIn(Positive(state))
            /\ \A i \in 1..(Len(possible_actions) - 1) :
                  Rank(possible_actions[i].name) < Rank(possible_actions[i + 1].name)

C5_Witness ==
    /\ name = "p1"
    /\ followed = 2
    /\ [i \in 1..Len(actions(state)) |-> actions(state)[i].name] =
          << <<"Load", "C2", "P1", "JFK">>, <<"Load", "C2", "P2", "JFK">>,
             <<"Unload", "C1", "P1", "JFK">>,
             <<"Fly", "P1", "JFK", "SFO">>, <<"Fly", "P2", "JFK", "SFO">> >>

(* C6: admissibility: in each built-in problem, from a reachable state with an
   unsatisfied goal literal, no sequence of applicable actions shorter than
   h_ignore_preconditions of that state leads to a goal state. *)
C6_Admissible ==
    (pc = "measure" /\ goal_test(state)) => h0 <= steps

(* C7: round trip: encoding the decoded form of a reachable encoded state gives
   the state back, and the state has one slot per position of the state map. *)
C7_RoundTrip ==
    /\ Len(state) = Len(state_map)
    /\ encode_state(decode_state(state, state_map), state_map) = state

C7_Witness ==
    /\ name = "p3"
    /\ state # initial_state_TF
    /\ At("C4", "ORD") \in Negative(state)
    /\ encode_state(decode_state(state, state_map), state_map) = state

(* C8: goal_test(state) is true exactly when every fluent of the goal list is in
   the decoded positive set of state; with an empty goal list it is true. *)
C8_GoalTest ==
    pc = "ready" =>
        /\ goal_test(state) <=> (\A g \in ToSet(goal) : g \in Positive(state))
        /\ goal = <<>> => goal_test(state)

C8_Witness ==
    /\ name = "custom"
    /\ goal = <<>>
    /\ followed = 3
    /\ goal_test(state)

(* C9: h_ignore_preconditions(state) is the number of entries of the goal list
   that are not in the positive set of state, and it is 0 exactly on the states
   that pass goal_test. *)
C9_GoalCount ==
    pc = "ready" =>
        /\ h_ignore_preconditions(state) =
              Cardinality({i \in 1..Len(goal) : goal[i] \notin Positive(state)})
        /\ h_ignore_preconditions(state) = 0 <=> goal_test(state)

C9_Witness ==
    /\ name = "p2"
    /\ followed = 3
    /\ At("C1", "JFK") \in Positive(state)
    /\ h_ignore_preconditions(state) = 2
    /\ ~goal_test(state)

(* C10: grounding cardinality: get_actions yields |C|*|P|*|A| Load actions,
   |C|*|P|*|A| Unload actions and |P|*|A|*(|A|-1) Fly actions, none of them a
   Fly from an airport to itself, whatever the initial state asserts. *)
C10_GroundingCardinality ==
    pc = "ready" =>
        LET nc == Len(cargos)
            np == Len(planes)
            na == Len(airports)
            named(schema) == SelectSeq(actions_list, LAMBDA a : a.name[1] = schema)
        IN  /\ Len(named("Load")) = nc * np * na
            /\ Len(named("Unload")) = nc * np * na
            /\ Len(named("Fly")) = np * na * (na - 1)
            /\ Len(actions_list) = 2 * nc * np * na + np * na * (na - 1)
            /\ \A a \in ToSet(named("Fly")) : a.name[3] # a.name[4]
            /\ Cardinality({a.name : a \in ToSet(actions_list)}) = Len(actions_list)

C10_Witness ==
    /\ pc = "ready"
    /\ name = "domain"
    /\ Len(cargos) = 2 /\ Len(planes) = 3 /\ Len(airports) = 3
    /\ Len(actions_list) = 54
    /\ Positive(state) = {}

----------------------------------------------------------------------------
(* h_pg_levelsum behind functools.lru_cache *)

(* two problem objects, both built by air_cargo_p1() *)
Instances == {"A", "B"}

(* the states of the nodes the driver asks about *)
NodeStates == {AfterScenario(0), AfterScenario(1)}

(* what PlanningGraph(self, node.state).h_levelsum() may return *)
h_levelsum == {1, 2}

(* the cache key with the problem object left out *)
make_key_state_only(inst, node_state) == <<"A", node_state>>

(* lru_cache's key of the call h_pg_levelsum(self, node): self hashes by
   identity, a Node hashes and compares by its state *)
make_key(inst, node_state) == <<inst, node_state>>

cache_index(c, key) == CHOOSE i \in 1..Len(c) : c[i].key = key

cache_has(c, key) == \E i \in 1..Len(c) : c[i].key = key

(* a hit that leaves the entry where it is *)
cache_touch_in_place(c, key) == c

(* a hit: the entry becomes the most recently used one *)
cache_touch(c, key) ==
    LET i == cache_index(c, key)
    IN  SubSeq(c, 1, i - 1) \o SubSeq(c, i + 1, Len(c)) \o <<c[i]>>

(* a miss whose result is never stored *)
cache_store_nothing(c, e) == c

(* after the miss: nothing if another caller stored the key meanwhile, else the
   new entry goes in as the most recently used, the least recently used one
   leaving when the cache is full *)
cache_store(c, e) ==
    IF cache_has(c, e.key) THEN c
    ELSE IF Len(c) >= Capacity THEN Append(Tail(c), e)
    ELSE Append(c, e)

Idle == [pc |-> "idle", args |-> <<>>, key |-> <<>>, value |-> 0]

(* when an entry was last returned or stored *)
Stamp(c, key, now) ==
    [i \in 1..Len(c) |-> IF c[i].key = key THEN [c[i] EXCEPT !.used = now] ELSE c[i]]

Completed(d, rec) == IF Len(d) < 2 THEN Append(d, rec) ELSE <<d[2], rec>>

(* the wrapper up to the end of its first locked section *)
Lookup(t) ==
    /\ th[t].pc = "idle"
    /\ calls < MaxCalls
    /\ calls' = calls + 1
    /\ \E inst \in Instances, s \in NodeStates :
         LET key == make_key(inst, s)
         IN  IF cache_has(cache, key)
             THEN LET e == cache[cache_index(cache, key)]
                  IN  /\ cache' = Stamp(cache_touch(cache, key), key, calls + 1)
                      /\ th' = th
                      /\ done' = Completed(done, [args |-> <<inst, s>>, value |-> e.value,
                                                 origin |-> e.origin, oracle |-> oracle_calls])
             ELSE /\ th' = [th EXCEPT ![t] = [pc |-> "computing", args |-> <<inst, s>>,
                                               key |-> key, value |-> 0]]
                  /\ UNCHANGED <<cache, done>>
    /\ UNCHANGED <<problem_fields, actions_list, pc, state, followed, h0, steps,
                   oracle_calls, call, search_vars>>

(* the body of h_pg_levelsum, run outside the lock *)
Compute(t) ==
    /\ th[t].pc = "computing"
    /\ \E v \in h_levelsum : th' = [th EXCEPT ![t].pc = "storing", ![t].value = v]
    /\ oracle_calls' = oracle_calls + 1
    /\ UNCHANGED <<problem_fields, actions_list, pc, state, followed, h0, steps,
                   cache, done, calls, call, search_vars>>

(* the wrapper's second locked section and its return *)
Store(t) ==
    /\ th[t].pc = "storing"
    /\ cache' = cache_store(cache, [key |-> th[t].key, value |-> th[t].value,
                                    origin |-> th[t].args, born |-> calls, used |-> calls])
    /\ done' = Completed(done, [args |-> th[t].args, value |-> th[t].value,
                                origin |-> th[t].args, oracle |-> oracle_calls])
    /\ th' = [th EXCEPT ![t] = Idle]
    /\ UNCHANGED <<problem_fields, actions_list, pc, state, followed, h0, steps,
                   calls, oracle_calls, call, search_vars>>

Callers(n) ==
    /\ Built(air_cargo_p1)
    /\ cache = <<>>
    /\ th = [t \in 1..n |-> Idle]
    /\ done = <<>>
    /\ calls = 0
    /\ oracle_calls = 0
    /\ call = NoCall
    /\ frontier = {}
    /\ explored = {}

(* one caller at a time *)
InitCache == Callers(1)

SomeLookup == \E t \in DOMAIN th : Lookup(t)

SomeCompute == \E t \in DOMAIN th : Compute(t)

SomeStore == \E t \in DOMAIN th : Store(t)

NextCache == SomeLookup \/ SomeCompute \/ SomeStore

SpecCache == InitCache /\ [][NextCache]_vars

(* several search frontiers calling at once *)
InitRace == Callers(NumThreads)

SpecRace == InitRace /\ [][NextCache]_vars

(* C11: memoization transparency: of two consecutive calls of h_pg_levelsum
   with the same (problem, state), the second returns the value of the first
   and leaves the count of oracle runs as the first left it. *)
C11_MemoTransparent ==
    (Len(done) = 2 /\ done[1].args = done[2].args) =>
        /\ done[2].value = done[1].value
        /\ done[2].oracle = done[1].oracle

C11_Witness ==
    /\ Len(done) = 2
    /\ done[1].args = done[2].args
    /\ done[2].value = 2
    /\ oracle_calls = 1
    /\ calls = 2

(* the entries of the cache that the step removes *)
Evicted == {e \in ToSet(cache) : ~cache_has(cache', e.key)}

(* C12 as stated: the cache never holds more than its capacity, and the entry
   an insertion evicts is the one computed earliest among those cached, however
   recently entries were looked up. *)
C12_EvictsOldestComputed ==
    /\ [](Len(cache) <= Capacity)
    /\ [][\A e \in Evicted : \A f \in ToSet(cache) : e.born <= f.born]_vars

(* C12 amended: the cache never holds more than its capacity, and the entry an
   insertion evicts is the least recently used one: the one whose last lookup
   or computation is the earliest among those cached. *)
C12_EvictsLeastRecentlyUsed ==
    /\ [](Len(cache) <= Capacity)
    /\ [][\A e \in Evicted : \A f \in ToSet(cache) : e.used <= f.used]_vars

(* a full cache that has let go of an entry computed later than one it kept *)
C12_Witness ==
    /\ Len(cache) = Capacity
    /\ oracle_calls > Capacity
    /\ \E f \in ToSet(cache) : f.born = 1 /\ f.used > f.born
    /\ \A t \in DOMAIN th : th[t].pc = "idle"

(* C13: single computation under races: callers that miss the same key at the
   same time do not each run the computation for it. *)
C13_SingleFlight ==
    \A t1, t2 \in DOMAIN th :
        (t1 # t2 /\ th[t1].pc = "storing" /\ th[t2].pc = "storing") =>
            th[t1].key # th[t2].key

(* C14: cache keys include the problem: the value a call returns was computed
   for that call's own problem and state, never for another problem's. *)
C14_KeyedByProblem ==
    \A i \in 1..Len(done) : done[i].origin = done[i].args

C14_Witness ==
    /\ Len(done) = 2
    /\ done[1].args[1] = "A"
    /\ done[2].args[1] = "B"
    /\ done[1].args[2] = done[2].args[2]
    /\ done[1].value # done[2].value
    /\ Len(cache) = 2
    /\ oracle_calls = 2

----------------------------------------------------------------------------
(* Construction from input that names objects the domain does not have *)

(* air_cargo_p1's domain with a goal at an airport that is not in airports *)
GoalAtUnknownAirport ==
    {[air_cargo_p1 EXCEPT !.name = "unknown_airport", !.goal = g] :
        g \in {<<At("C1", "ORD")>>, <<At("C1", "JFK"), At("C2", "ORD")>>}}

(* air_cargo_p1's domain with initial and goal fluents about a cargo that is
   not in cargos *)
FluentOfUnknownCargo ==
    [air_cargo_p1 EXCEPT
        !.name = "unknown_cargo",
        !.initial = FluentState(air_cargo_p1.initial.pos \o <<At("C3", "SFO")>>,
                                air_cargo_p1.initial.neg \o <<At("C3", "JFK")>>),
        !.goal = <<At("C3", "JFK")>>]

(* air_cargo_p1 with a goal fluent that the initial state lists on neither side *)
GoalOutsideStateMap ==
    [air_cargo_p1 EXCEPT
        !.name = "outside_state_map",
        !.initial = FluentState(air_cargo_p1.initial.pos,
                                SelectSeq(air_cargo_p1.initial.neg,
                                          LAMBDA fluent : fluent # In("C1", "P2"))),
        !.goal = <<In("C1", "P2")>>]

Malformed == GoalAtUnknownAirport \cup {FluentOfUnknownCargo, GoalOutsideStateMap}

InitMalformed == \E inp \in Malformed \cup {air_cargo_p3} : Constructed(inp)

SpecMalformed == InitMalformed /\ [][Next]_vars

(* At(cargo or plane, airport) and In(cargo, plane) over the domain's objects *)
OverDomain(fluent) ==
    \/ /\ fluent[1] = "At"
       /\ fluent[2] \in ToSet(cargos) \cup ToSet(planes)
       /\ fluent[3] \in ToSet(airports)
    \/ /\ fluent[1] = "In"
       /\ fluent[2] \in ToSet(cargos)
       /\ fluent[3] \in ToSet(planes)

WellFormed ==
    /\ \A fluent \in Fluents \cup ToSet(goal) : OverDomain(fluent)
    /\ ToSet(goal) \subseteq Fluents

(* C15: malformed input is rejected at construction: no problem instance comes
   out of a constructor call whose goal or initial fluents name an object that
   the domain lacks, or whose goal has a fluent that the state map lacks. *)
C15_MalformedRejected == pc = "ready" => WellFormed

----------------------------------------------------------------------------
(* result() called outside its contract *)

(* result with a test of the preconditions in front *)
result_outcome_guarded(s, action) ==
    IF is_possible(action, kb_clauses(decode_state(s, state_map)))
    THEN "returned" ELSE "error"

(* how a call of result ends: it has no test of the preconditions and no raise *)
result_outcome(s, action) == "returned"

(* a caller hands result any grounded action, applicable or not, and stops *)
ResultUnchecked ==
    /\ pc = "ready"
    /\ \E i \in 1..Len(actions_list) :
         LET action == actions_list[i]
             outcome == result_outcome(state, action)
         IN  /\ call' = [method |-> "result", state |-> state,
                         action |-> action.name, outcome |-> outcome,
                         ret |-> IF outcome = "returned" THEN result(state, action) ELSE <<>>]
             /\ state' = IF outcome = "returned" THEN result(state, action) ELSE state
    /\ pc' = "called"
    /\ followed' = -1
    /\ UNCHANGED <<problem_fields, actions_list, h0, steps, cache_vars, search_vars>>

InitContract == Constructed(air_cargo_p1)

NextContract == Result \/ ResultUnchecked

SpecContract == InitContract /\ [][NextContract]_vars

(* the last call was result with an action whose preconditions did not hold *)
CalledInapplicable ==
    /\ call.method = "result"
    /\ ActionNamed(call.action) \notin ApplicableIn(Positive(call.state))

(* C16 as stated: result called with an action that is not applicable in the
   state ends in an error and returns no encoded state. *)
C16_FailsLoudly == CalledInapplicable => call.outcome = "error"

(* C16 amended: result called with an action that is not applicable in the
   state does not fail: it returns the encoded state whose positive fluents
   are those of the state minus the delete effects plus the add effects. *)
C16_ReturnsSilently ==
    CalledInapplicable =>
        LET a == ActionNamed(call.action)
        IN  /\ call.outcome = "returned"
            /\ Len(state) = Len(state_map)
            /\ Positive(state) =
                 ((Positive(call.state) \ ToSet(a.effect_rem)) \cup ToSet(a.effect_add))
                 \cap Fluents

C16_Witness ==
    /\ CalledInapplicable
    /\ call.state = initial_state_TF
    /\ call.action = <<"Unload", "C1", "P1", "JFK">>
    /\ call.outcome = "returned"
    /\ {At("C1", "SFO"), At("C1", "JFK")} \subseteq Positive(state)

----------------------------------------------------------------------------
(* The methods called one after another on one problem *)

(* actions() starting from self.actions_list itself and keeping, in it, only
   the possible actions *)
self_after_call_filtering_in_place(method, s, action) ==
    [state_map |-> state_map,
     actions_list |-> IF method = "actions" THEN actions(s) ELSE actions_list,
     goal |-> goal,
     initial_state_TF |-> initial_state_TF,
     arg |-> s]

(* the problem's attributes and the state argument when the call is over:
   actions, result, goal_test, h_1 and h_ignore_preconditions assign no
   attribute of self, append only to lists they made themselves
   (possible_actions, new_state.pos, new_state.neg) and get the state as a str *)
self_after_call(method, s, action) ==
    [state_map |-> state_map,
     actions_list |-> actions_list,
     goal |-> goal,
     initial_state_TF |-> initial_state_TF,
     arg |-> s]

Called(method, action, ret) ==
    LET after == self_after_call(method, state, action)
    IN  /\ state_map' = after.state_map
        /\ actions_list' = after.actions_list
        /\ goal' = after.goal
        /\ initial_state_TF' = after.initial_state_TF
        /\ call' = [method |-> method, state |-> after.arg, action |-> action.name,
                    outcome |-> "returned", ret |-> ret]
        /\ UNCHANGED <<name, cargos, planes, airports, pc, h0, steps, cache_vars, search_vars>>

NoAction == [name |-> <<>>]

CallActions ==
    /\ pc = "ready"
    /\ Called("actions", NoAction,
              [i \in 1..Len(actions(state)) |-> actions(state)[i].name])
    /\ UNCHANGED <<state, followed>>

CallResult ==
    /\ pc = "ready"
    /\ LET possible_actions == actions(state)
       IN  \E i \in 1..Len(possible_actions) :
             /\ Called("result", possible_actions[i], result(state, possible_actions[i]))
             /\ state' = result(state, possible_actions[i])
             /\ followed' = Follow(followed, possible_actions[i].name)

CallGoalTest ==
    /\ pc = "ready"
    /\ Called("goal_test", NoAction, goal_test(state))
    /\ UNCHANGED <<state, followed>>

CallH1 ==
    /\ pc = "ready"
    /\ Called("h_1", NoAction, h_1(state))
    /\ UNCHANGED <<state, followed>>

CallHIgnorePreconditions ==
    /\ pc = "ready"
    /\ Called("h_ignore_preconditions", NoAction, h_ignore_preconditions(state))
    /\ UNCHANGED <<state, followed>>

InitCalls == \E inp \in {air_cargo_p1} \cup CustomGoal : Constructed(inp)

NextCalls ==
    CallActions \/ CallResult \/ CallGoalTest \/ CallH1 \/ CallHIgnorePreconditions

SpecCalls == InitCalls /\ [][NextCalls]_vars

(* C17: no call of actions, result, goal_test, h_1 or h_ignore_preconditions
   changes the state map, the grounded action list, the goal list or the
   encoded initial state, and the state passed in is the same after the call. *)
C17_CallsLeaveProblemAlone ==
    [][/\ state_map' = state_map
       /\ actions_list' = actions_list
       /\ goal' = goal
       /\ initial_state_TF' = initial_state_TF
       /\ call'.state = state]_vars

C17_Witness ==
    /\ call.method = "actions"
    /\ call.state = state
    /\ state # initial_state_TF
    /\ Len(call.ret) > 0
    /\ Len(call.ret) < Len(actions_list)
    /\ actions_list = get_actions(cargos, planes, airports)

----------------------------------------------------------------------------
(* Where every cargo and every plane is *)

CargoPlaces(c, pos) == {f \in pos : f[1] \in {"At", "In"} /\ f[2] = c}

PlanePlaces(p, pos) == {f \in pos : f[1] = "At" /\ f[2] = p}

PlacedPlanes == {p \in ToSet(planes) : PlanePlaces(p, Positive(initial_state_TF)) # {}}

(* C18: in every reachable state of a built-in problem every cargo is in
   exactly one place (At one airport or In one plane) and every plane placed
   initially is At exactly one airport. *)
C18_LocationInvariant ==
    name \in BuiltInNames =>
        LET pos == Positive(state)
        IN  /\ \A c \in ToSet(cargos) : Cardinality(CargoPlaces(c, pos)) = 1
            /\ \A p \in PlacedPlanes : Cardinality(PlanePlaces(p, pos)) = 1

----------------------------------------------------------------------------
(* Applicable actions in every reachable state *)

IsFly(action) == action.name[1] = "Fly"

(* C20: in every reachable state of a built-in problem actions(state) is not
   empty, because some Fly action is applicable. *)
C20_NoDeadEnd ==
    name \in BuiltInNames =>
        LET possible_actions == actions(state)
        IN  /\ Len(possible_actions) > 0
            /\ \E i \in 1..Len(possible_actions) : IsFly(possible_actions[i])

C20_Witness ==
    /\ name \in BuiltInNames
    /\ state # initial_state_TF
    /\ LET possible_actions == actions(state)
       IN  /\ Len(possible_actions) > 0
           /\ \A i \in 1..Len(possible_actions) : IsFly(possible_actions[i])

----------------------------------------------------------------------------
(* Reachability of the goal: the states reachable from the initial state are
   collected one layer of result() at a time until goal_test succeeds or no
   new state is left *)

successors(s) ==
    LET possible_actions == actions(s)
    IN  {result(s, possible_actions[i]) : i \in 1..Len(possible_actions)}

goal_states(layer) == {s \in layer : goal_test(s)}

InitSearch ==
    \E inp \in BuiltIn \cup CustomGoal :
        /\ Built(inp)
        /\ cache = <<>> /\ th = <<>> /\ done = <<>> /\ calls = 0 /\ oracle_calls = 0
        /\ call = NoCall
        /\ frontier = {init_initial_state_TF(inp.initial)}
        /\ explored = {}

Found ==
    /\ pc = "ready"
    /\ goal_states(frontier) # {}
    /\ pc' = "found"
    /\ UNCHANGED <<problem_fields, actions_list, state, followed, h0, steps,
                   cache_vars, call, search_vars>>

ExpandLayer ==
    /\ pc = "ready"
    /\ frontier # {}
    /\ goal_states(frontier) = {}
    /\ explored' = explored \cup frontier
    /\ frontier' = (UNION {successors(s) : s \in frontier}) \ (explored \cup frontier)
    /\ UNCHANGED <<problem_fields, actions_list, pc, state, followed, h0, steps,
                   cache_vars, call>>

Exhausted ==
    /\ pc = "ready"
    /\ frontier = {}
    /\ pc' = "exhausted"
    /\ UNCHANGED <<problem_fields, actions_list, state, followed, h0, steps,
                   cache_vars, call, search_vars>>

NextSearch == Found \/ ExpandLayer \/ Exhausted

SpecSearch == InitSearch /\ [][NextSearch]_vars

(* C19: in each built-in problem some sequence of applicable actions leads
   from the initial state to a state that passes goal_test, so collecting the
   reachable states never ends without one. *)
C19_GoalReachable == name \in BuiltInNames => pc # "exhausted"

====
